---- MODULE Spec2Model ----
(***************************************************************************)
(* Model of the NIFTY 500 Camarilla screener: the command-line pipeline    *)
(* (src/nifty500.py) and the core of the Flet application                  *)
(* (src/nifty500_app.py).                                                  *)
(*                                                                         *)
(* Conventions.                                                            *)
(*  - An optional value (Python None or a value) is a sequence of length   *)
(*    0 or 1: None == <<>>, Some(x) == <<x>>.                              *)
(*  - A raw price is an integer number of half-paise (1/200 rupee); a      *)
(*    missing value (NaN in a DataFrame, null in the JSON payload) is None. *)
(*  - Arithmetic is exact rational arithmetic on scaled integers; Python's *)
(*    round() is round-half-to-even.  The binary representation error of   *)
(*    64-bit floats is not modelled.                                       *)
(*  - A date is a record [year, month, day].                               *)
(***************************************************************************)
EXTENDS Integers, Sequences, FiniteSets, TLC

VARIABLES
    \* ---- Period Selector, applied to one bar history
    sel_dates,              \* the period timestamps of the bars, in payload order
    sel_now,                \* the reference timestamp
    row,                    \* nifty500.py: result of last_completed_month_row
    previous_month_candle,  \* nifty500_app.py: result of the selection loop
    sel_ran,                \* which of the two selectors have run
    \* ---- one ticker through the calculator and the filter of both programs
    piv_bar,                \* <<high, low, close>> of the last completed month
    piv_last,               \* close of a bar of the current month, or None
    cli_out,                \* nifty500.py: outcome of the loop body
    app_res,                \* nifty500_app.py: result of process_ticker
    piv_ran,                \* which of the two programs have run
    \* ---- Symbol Resolver, applied to one answer of the constituent-list URL
    universe,               \* the answer of the URL
    cli_resolved,           \* nifty500.py: outcome of fetch_nifty500_symbols
    app_resolved,           \* nifty500_app.py: list fetch_nifty500_symbols returned
    res_ran,                \* which of the two resolvers have run
    \* ---- Monthly Bar Fetcher, applied to one ticker
    downloads,              \* nifty500.py: what yf.download does on attempt k
    fetched_df,             \* nifty500.py: outcome of fetch_monthly_df
    chart,                  \* nifty500_app.py: the answer of the chart URL
    fetched_candles,                \* nifty500_app.py: result of get_yahoo_data_pure
    chart_requests,         \* nifty500_app.py: calls of fetch_url made
    fetch_ran,              \* which of the two fetchers have run
    \* ---- nifty500.py: a run of main
    cli_pc,                 \* "off", "start", "loop", "done" (return 0),
                            \* "failed" (return 1), "raised" (uncaught exception)
    cli_limit,              \* args.limit: None or Some(n)
    cli_universe,           \* the answer of the constituent-list URL
    cli_symbols,            \* symbols
    cli_i,                  \* position of the per-ticker loop in symbols
    cli_fetched,            \* tickers handed to fetch_monthly_df so far
    out_rows,               \* out_rows
    written,                \* rows of the CSV file written, or None
    \* ---- nifty500_app.py: scans of the application
    app_pc,                 \* "off", "idle", "fetch", "loop", "done"
    fab_disabled,           \* fab.disabled
    app_universe,           \* the answer of the constituent-list URL
    app_symbols,            \* symbols of scan_thread
    app_i,                  \* position of the per-ticker loop in symbols
    app_fetched,            \* tickers handed to get_yahoo_data_pure so far
    results,                \* results of scan_thread
    stocks_data,            \* stocks_data
    page_fab_disabled,      \* fab.disabled as the page shows it since the last page.update()
    scans,                  \* the run_scan calls so far, each with its scan_thread
    results_list            \* results_list.controls, the tickers of the cards

selVars == <<sel_dates, sel_now, row, previous_month_candle, sel_ran>>

pivVars == <<piv_bar, piv_last, cli_out, app_res, piv_ran>>

resVars == <<universe, cli_resolved, app_resolved, res_ran>>

fetchVars ==
    <<downloads, fetched_df, chart, fetched_candles, chart_requests, fetch_ran>>

cliVars ==
    <<cli_pc, cli_limit, cli_universe, cli_symbols, cli_i, cli_fetched,
      out_rows, written>>

appVars ==
    <<app_pc, fab_disabled, app_universe, app_symbols, app_i, app_fetched,
      results, stocks_data>>

uiVars == <<page_fab_disabled, scans, results_list>>

vars == <<selVars, pivVars, resVars, fetchVars, cliVars, appVars, uiVars>>

-----------------------------------------------------------------------------
(* Optional values *)

None == <<>>

Some(x) == <<x>>

IsNone(o) == o = <<>>

-----------------------------------------------------------------------------
(* Dates *)

Date(y, m, d) == [year |-> y, month |-> m, day |-> d]

\* Order of two timestamps (sort_index / sort(key=date)).
DateLt(a, b) ==
    \/ a.year < b.year
    \/ a.year = b.year /\ a.month < b.month
    \/ a.year = b.year /\ a.month = b.month /\ a.day < b.day

\* idx.month == now_ts.month and idx.year == now_ts.year
SameMonth(d, now) == d.month = now.month /\ d.year = now.year

\* Stable insertion of bar b into the date-sorted sequence s.
RECURSIVE InsertByDate(_, _)
InsertByDate(s, b) ==
    IF s = <<>> THEN <<b>>
    ELSE IF DateLt(b.date, s[Len(s)].date)
         THEN Append(InsertByDate(SubSeq(s, 1, Len(s) - 1), b), s[Len(s)])
         ELSE Append(s, b)

\* Stable ascending sort of a sequence of bars by date.
RECURSIVE SortByDate(_)
SortByDate(s) ==
    IF s = <<>> THEN <<>>
    ELSE InsertByDate(SortByDate(SubSeq(s, 1, Len(s) - 1)), s[Len(s)])

-----------------------------------------------------------------------------
(* Period Selector *)

\* (variant: the first completed row instead of the last)
last_completed_month_row_first(monthly_df, now_ts) ==
    IF monthly_df = <<>> THEN None
    ELSE LET monthly   == SortByDate(monthly_df)
             IsDone(b) == ~ SameMonth(b.date, now_ts)
             completed == SelectSeq(monthly, IsDone)
         IN  IF completed = <<>>
             THEN IF Len(monthly) >= 2
                  THEN Some(monthly[Len(monthly) - 1])
                  ELSE None
             ELSE Some(completed[1])

\* nifty500.py: last_completed_month_row(monthly_df, now_ts)
last_completed_month_row(monthly_df, now_ts) ==
    IF monthly_df = <<>> THEN None
    ELSE LET monthly   == SortByDate(monthly_df)
             IsDone(b) == ~ SameMonth(b.date, now_ts)
             completed == SelectSeq(monthly, IsDone)
         IN  IF completed = <<>>
             THEN IF Len(monthly) >= 2
                  THEN Some(monthly[Len(monthly) - 1])
                  ELSE None
             ELSE Some(completed[Len(completed)])

\* nifty500_app.py: the backward scan of process_ticker over the sorted
\* candles, from index i down to 1.
RECURSIVE ScanBack(_, _, _)
ScanBack(candles, i, now_ts) ==
    IF i = 0 THEN None
    ELSE IF ~ SameMonth(candles[i].date, now_ts)
         THEN Some(candles[i])
         ELSE ScanBack(candles, i - 1, now_ts)

\* nifty500_app.py: candles.sort(...) and the selection loop of
\* process_ticker.
select_previous_month_candle(candles, now_ts) ==
    LET sorted == SortByDate(candles)
    IN  ScanBack(sorted, Len(sorted), now_ts)

-----------------------------------------------------------------------------
(* Strings: a string is a sequence of one-character strings *)

UpperLetters ==
    << "A", "B", "C", "D", "E", "F", "G", "H", "I", "J", "K", "L", "M",
       "N", "O", "P", "Q", "R", "S", "T", "U", "V", "W", "X", "Y", "Z" >>

LowerLetters ==
    << "a", "b", "c", "d", "e", "f", "g", "h", "i", "j", "k", "l", "m",
       "n", "o", "p", "q", "r", "s", "t", "u", "v", "w", "x", "y", "z" >>

Whitespace == {" ", "\t"}

UpperChar(c) ==
    IF \E i \in 1..26 : LowerLetters[i] = c
    THEN UpperLetters[CHOOSE i \in 1..26 : LowerLetters[i] = c]
    ELSE c

LowerChar(c) ==
    IF \E i \in 1..26 : UpperLetters[i] = c
    THEN LowerLetters[CHOOSE i \in 1..26 : UpperLetters[i] = c]
    ELSE c

\* str.upper()
Upper(s) == [i \in 1..Len(s) |-> UpperChar(s[i])]

\* str.lower()
Lower(s) == [i \in 1..Len(s) |-> LowerChar(s[i])]

\* str.strip()
RECURSIVE Strip(_)
Strip(s) ==
    IF s = <<>> THEN s
    ELSE IF s[1] \in Whitespace THEN Strip(Tail(s))
    ELSE IF s[Len(s)] \in Whitespace THEN Strip(SubSeq(s, 1, Len(s) - 1))
    ELSE s

\* sub in s
Contains(s, sub) ==
    \E i \in 1..(Len(s) - Len(sub) + 1) : SubSeq(s, i, i + Len(sub) - 1) = sub

\* s.endswith(suf)
EndsWith(s, suf) ==
    Len(s) >= Len(suf) /\ SubSeq(s, Len(s) - Len(suf) + 1, Len(s)) = suf

DotNS == <<".", "N", "S">>

DotBO == <<".", "B", "O">>

-----------------------------------------------------------------------------
(* Symbol Resolver *)

(* The answer of the constituent-list URL is [kind |-> "raise"] (network   *)
(* error, timeout, non-2xx status) or [kind |-> "text", header, rows]: the *)
(* header cells and the data rows of the CSV text, each row a sequence of  *)
(* cells as long as the header.  A text without a header row has           *)
(* header = <<>> and no rows.                                              *)

\* "symbol" in c.lower() or "ticker" in c.lower() or "code" in c.lower()
SymbolLike(c) ==
    \/ Contains(Lower(c), <<"s", "y", "m", "b", "o", "l">>)
    \/ Contains(Lower(c), <<"t", "i", "c", "k", "e", "r">>)
    \/ Contains(Lower(c), <<"c", "o", "d", "e">>)

\* Index of the symbol column of a non-empty header: the first symbol-like
\* name, else the first column (nifty500.py 41-51, nifty500_app.py 34-42).
SymbolColumn(header) ==
    IF \E i \in 1..Len(header) : SymbolLike(header[i])
    THEN CHOOSE i \in 1..Len(header) :
             /\ SymbolLike(header[i])
             /\ \A j \in 1..(i - 1) : ~ SymbolLike(header[j])
    ELSE 1

\* The loops at nifty500.py 54-61 and nifty500_app.py 55-60 over the stripped,
\* uppercased values: skip empty and "NAN", append ".NS" unless the value
\* ends in ".NS" or ".BO".
RECURSIVE SuffixSymbols(_)
SuffixSymbols(symbols) ==
    IF symbols = <<>> THEN <<>>
    ELSE LET s    == symbols[Len(symbols)]
             rest == SuffixSymbols(SubSeq(symbols, 1, Len(symbols) - 1))
         IN  IF s = <<>> \/ s = <<"N", "A", "N">> THEN rest
             ELSE IF EndsWith(s, DotNS) \/ EndsWith(s, DotBO)
                  THEN Append(rest, s)
                  ELSE Append(rest, s \o DotNS)

\* nifty500.py 63-68: dedupe preserving order.
RECURSIVE Dedupe(_)
Dedupe(syms) ==
    IF syms = <<>> THEN <<>>
    ELSE LET out == Dedupe(SubSeq(syms, 1, Len(syms) - 1))
             t   == syms[Len(syms)]
         IN  IF \E i \in 1..Len(out) : out[i] = t THEN out ELSE Append(out, t)

\* The strings pandas.read_csv reads as NaN by default, among the cells of
\* the model; astype(str) turns NaN into "nan".
PandasNaN == { <<>>, <<"N", "A">>, <<"n", "a", "n">>, <<"N", "a", "N">> }

AsStr(cell) == IF cell \in PandasNaN THEN <<"n", "a", "n">> ELSE cell

\* (variant: a failure yields an empty list instead of an exception)
fetch_nifty500_symbols_swallow(resp) ==
    IF resp.kind = "raise" \/ resp.header = <<>>
    THEN [kind |-> "ok", symbols |-> <<>>]
    ELSE LET col     == SymbolColumn(resp.header)
             symbols == [i \in 1..Len(resp.rows) |->
                            Upper(Strip(AsStr(resp.rows[i][col])))]
         IN  [kind |-> "ok", symbols |-> Dedupe(SuffixSymbols(symbols))]

\* nifty500.py: fetch_nifty500_symbols(); [kind |-> "raise"] when requests
\* or read_csv raise, else [kind |-> "ok", symbols |-> the list].
fetch_nifty500_symbols(resp) ==
    IF resp.kind = "raise" \/ resp.header = <<>> THEN [kind |-> "raise"]
    ELSE LET col     == SymbolColumn(resp.header)
             symbols == [i \in 1..Len(resp.rows) |->
                            Upper(Strip(AsStr(resp.rows[i][col])))]
         IN  [kind |-> "ok", symbols |-> Dedupe(SuffixSymbols(symbols))]

\* nifty500_app.py line 66: the list returned when anything raises.
FALLBACK_SYMBOLS ==
    << <<"R", "E", "L", "I", "A", "N", "C", "E", ".", "N", "S">>,
       <<"T", "C", "S", ".", "N", "S">>,
       <<"I", "N", "F", "Y", ".", "N", "S">>,
       <<"H", "D", "F", "C", "B", "A", "N", "K", ".", "N", "S">> >>

\* The elements of a sequence.
Range(s) == { s[i] : i \in 1..Len(s) }

\* The orders in which list(set(...)) may deliver the elements of S.
Orderings(S) ==
    { o \in [1..Cardinality(S) -> S] : \A x \in S : \E i \in DOMAIN o : o[i] = x }

\* nifty500_app.py: the values fetch_nifty500_symbols() may return:
\* list(set(yahoo_symbols)) in any order, or the fallback list when the
\* fetch raises.
app_fetch_nifty500_symbols(resp) ==
    IF resp.kind = "raise" THEN {FALLBACK_SYMBOLS}
    ELSE IF resp.header = <<>> THEN {<<>>}
    ELSE LET fieldnames == [i \in 1..Len(resp.header) |-> Strip(resp.header[i])]
             col        == SymbolColumn(fieldnames)
             vals       == [i \in 1..Len(resp.rows) |->
                               Upper(Strip(resp.rows[i][col]))]
         IN  Orderings(Range(SuffixSymbols(vals)))

-----------------------------------------------------------------------------
(* Monthly Bar Fetcher *)

\* max_retries=2, the default of fetch_monthly_df that main relies on.
MAX_RETRIES == 2

(* nifty500.py.  What yf.download does on one attempt is                   *)
(* [kind |-> "raise"] or [kind |-> "df", df |-> d], d being None or        *)
(* Some(rows); responses[k] is what it does on attempt k.  The loop of     *)
(* fetch_monthly_df from attempt number `attempt` (0-based) on; sleeps are *)
(* the arguments of time.sleep so far.                                     *)
RECURSIVE FetchLoop(_, _, _, _)
FetchLoop(responses, attempt, max_retries, sleeps) ==
    IF attempt > max_retries
    THEN [result |-> None, attempts |-> attempt, sleeps |-> sleeps]
    ELSE LET r == responses[attempt + 1]
         IN  IF r.kind = "raise"
             THEN FetchLoop(responses, attempt + 1, max_retries,
                            Append(sleeps, 1 + attempt))
             ELSE IF IsNone(r.df) \/ r.df[1] = <<>>
                  THEN [ result |-> None, attempts |-> attempt + 1,
                         sleeps |-> sleeps ]
                  ELSE [ result |-> r.df, attempts |-> attempt + 1,
                         sleeps |-> sleeps ]

\* nifty500.py: fetch_monthly_df(ticker, period_days, max_retries); the
\* result, the number of downloads attempted and the sleeps.
fetch_monthly_df(responses, max_retries) ==
    FetchLoop(responses, 0, max_retries, <<>>)

(* nifty500_app.py.  The answer of the chart URL is [kind |-> "raise"]     *)
(* (fetch_url or json.loads raises) or [kind |-> "json", result, timestamp,*)
(* high, low, close]: whether chart.result is non-empty, the timestamps    *)
(* (as dates) and the parallel arrays, whose entries are None (null) or    *)
(* Some(number).                                                           *)

\* The candles of entries 1..n of the arrays (lines 91-101).
RECURSIVE Candles(_, _)
Candles(resp, n) ==
    IF n = 0 THEN <<>>
    ELSE IF IsNone(resp.close[n]) THEN Candles(resp, n - 1)
    ELSE Append(Candles(resp, n - 1),
                [ date  |-> resp.timestamp[n],
                  high  |-> IF IsNone(resp.high[n]) THEN 0 ELSE resp.high[n][1],
                  low   |-> IF IsNone(resp.low[n]) THEN 0 ELSE resp.low[n][1],
                  close |-> resp.close[n][1] ])

\* An index of the loop at which closes[i], highs[i] or lows[i] raises
\* IndexError.
IndexErrorAt(resp, i) ==
    \/ i > Len(resp.close)
    \/ ~ IsNone(resp.close[i]) /\ (i > Len(resp.high) \/ i > Len(resp.low))

\* nifty500_app.py: get_yahoo_data_pure(ticker): None or Some(candles).
get_yahoo_data_pure(resp) ==
    IF resp.kind = "raise" THEN None
    ELSE IF ~ resp.result THEN None
    ELSE IF resp.timestamp = <<>> \/ resp.close = <<>> THEN None
    ELSE IF \E i \in 1..Len(resp.timestamp) : IndexErrorAt(resp, i) THEN None
    ELSE Some(Candles(resp, Len(resp.timestamp)))

-----------------------------------------------------------------------------
(* Numbers *)

\* x rounded to the nearest integer of n / d (d > 0), ties to the even one:
\* Python's round().
RoundHalfEven(n, d) ==
    LET q == n \div d
        r == n % d
    IN  IF 2 * r < d THEN q
        ELSE IF 2 * r > d THEN q + 1
        ELSE IF q % 2 = 0 THEN q ELSE q + 1

\* The rational n / d (d # 0) as a pair with a positive denominator.
Rat(n, d) == IF d < 0 THEN <<0 - n, 0 - d>> ELSE <<n, d>>

RatLt(x, y) == x[1] * y[2] < y[1] * x[2]

RatGe(x, y) == ~ RatLt(x, y)

\* round(x * k): the rational x rounded to a whole number of 1/k.
RatRound(x, k) == RoundHalfEven(x[1] * k, x[2])

\* CAM_MULT = 1.1, in tenths.
CAM_MULT_TENTHS == 11

\* The percent-range threshold 6.5 of both filters, in hundredths of a percent.
PCT_LIMIT_HUNDREDTHS == 650

PctLimit == <<PCT_LIMIT_HUNDREDTHS, 100>>

-----------------------------------------------------------------------------
(* Pivot Calculator *)

\* (variant: the range taken as low - high)
compute_r3_s3_swapped(high, low, close) ==
    LET diff == low - high
    IN  [ r3 |-> Rat(40 * close + diff * CAM_MULT_TENTHS, 40),
          s3 |-> Rat(40 * close - diff * CAM_MULT_TENTHS, 40) ]

\* nifty500.py: compute_r3_s3(high, low, close); the results are rationals.
\*   r3 = close + diff * cam_mult / 4.0,  s3 = close - diff * cam_mult / 4.0
compute_r3_s3(high, low, close) ==
    LET diff == high - low
    IN  [ r3 |-> Rat(40 * close + diff * CAM_MULT_TENTHS, 40),
          s3 |-> Rat(40 * close - diff * CAM_MULT_TENTHS, 40) ]

\* (r3 - s3) / s3 * 100.0 for s3 # 0; r3 and s3 are rationals over the same
\* denominator.
PercentRange(r3, s3) == Rat(100 * (r3[1] - s3[1]), s3[1])

-----------------------------------------------------------------------------
(* nifty500.py: the body of the per-ticker loop of main *)

\* A row of out_rows for a ticker without a result (lines 149-156, 162-169).
ErrorRow(ticker, error) ==
    [ ticker |-> ticker, year_month |-> None, period_end |-> None,
      open |-> None, high |-> None, low |-> None, close |-> None,
      r3 |-> None, s3 |-> None, pct_range_r3 |-> None, error |-> error ]

\* round(float(row.get(...))) of a price in half-paise: whole rupees.
RoundPrice(p) == RoundHalfEven(p, 200)

\* Lines 173-196, for a selected row whose four prices are present.
\* Outcome: the appended row, or "skip" when the filter drops the ticker.
cli_pivot_row(ticker, bar) ==
    LET h   == RoundPrice(bar.high[1])
        l   == RoundPrice(bar.low[1])
        o   == RoundPrice(bar.open[1])
        c   == RoundPrice(bar.close[1])
        rs  == compute_r3_s3(h, l, c)
        r3  == RatRound(rs.r3, 1)
        s3  == RatRound(rs.s3, 1)
        pct == IF s3 # 0 THEN Some(PercentRange(<<r3, 1>>, <<s3, 1>>)) ELSE None
    IN  IF IsNone(pct) \/ RatGe(pct[1], PctLimit)
        THEN [kind |-> "skip"]
        ELSE [ kind |-> "row",
               row  |-> [ ticker |-> ticker,
                          year_month |-> Some(<<bar.date.year, bar.date.month>>),
                          period_end |-> Some(bar.date),
                          open |-> Some(o), high |-> Some(h),
                          low |-> Some(l), close |-> Some(c),
                          r3 |-> Some(r3), s3 |-> Some(s3),
                          pct_range_r3 |-> Some(RatRound(pct[1], 100)),
                          error |-> "" ] ]

\* Lines 147-197: one iteration of the loop, given what fetch_monthly_df
\* returned (None or a sequence of rows).  Outcome "row": a row is appended;
\* "skip": nothing is appended; "raise": round() of a NaN raises ValueError,
\* which nothing in main catches.
cli_ticker(ticker, monthly_df, now_ts) ==
    IF IsNone(monthly_df) \/ monthly_df[1] = <<>>
    THEN [kind |-> "row", row |-> ErrorRow(ticker, "no_data")]
    ELSE LET sel == last_completed_month_row(monthly_df[1], now_ts)
         IN  IF IsNone(sel)
             THEN [kind |-> "row", row |-> ErrorRow(ticker, "no_completed_month")]
             ELSE IF \/ IsNone(sel[1].high) \/ IsNone(sel[1].low)
                     \/ IsNone(sel[1].open) \/ IsNone(sel[1].close)
                  THEN [kind |-> "raise"]
                  ELSE cli_pivot_row(ticker, sel[1])

-----------------------------------------------------------------------------
(* nifty500_app.py: process_ticker and the filter of scan_thread *)

\* Lines 110-150, given what get_yahoo_data_pure returned (None or a list of
\* candles with numeric high, low, close in half-paise).  The result is None
\* or the dict; r3, s3 and close are rounded to paise, pct_range to
\* hundredths of a percent.
process_ticker(ticker, candles, now_ts) ==
    IF IsNone(candles) \/ candles[1] = <<>> THEN None
    ELSE LET sorted == SortByDate(candles[1])
             sel    == select_previous_month_candle(candles[1], now_ts)
         IN  IF IsNone(sel) THEN None
             ELSE LET h    == sel[1].high
                      l    == sel[1].low
                      c    == sel[1].close
                      diff == h - l
                      r3   == Rat(40 * c + diff * CAM_MULT_TENTHS, 40)
                      s3   == Rat(40 * c - diff * CAM_MULT_TENTHS, 40)
                      last_close == sorted[Len(sorted)].close
                  IN  IF s3[1] = 0 THEN None
                      ELSE Some([ ticker    |-> ticker,
                                  r3        |-> RoundHalfEven(r3[1], 2 * r3[2]),
                                  s3        |-> RoundHalfEven(s3[1], 2 * s3[2]),
                                  pct_range |-> RatRound(PercentRange(r3, s3), 100),
                                  close     |-> RoundHalfEven(last_close, 2) ])

\* scan_thread line 329: res and res["pct_range"] < 6.5
scan_keeps(res) == ~ IsNone(res) /\ res[1].pct_range < PCT_LIMIT_HUNDREDTHS

-----------------------------------------------------------------------------
(* Bounds of the model *)

\* Longest bar history handed to the Period Selector.
MaxBars == 3

\* Most data rows of a constituent list handed to the Symbol Resolver.
MaxRows == 3

\* Most entries of the arrays of a chart payload.
MaxEntries == 2

\* Most data rows of the constituent list of a whole run.
MaxTickers == 2

\* Most clicks on the Scan button in one session of the application.
MaxScans == 2

-----------------------------------------------------------------------------
(* Specification SpecSelect: the Period Selector of both programs applied  *)
(* to one bar history and one reference timestamp.                         *)

SelDates ==
    { Date(2023, 6, 1), Date(2024, 5, 1), Date(2024, 5, 14),
      Date(2024, 6, 1), Date(2024, 6, 14), Date(2024, 7, 1) }

SelNows == { Date(2024, 6, 15), Date(2024, 5, 20) }

\* Sequences of at most n pairwise distinct elements of S.
DistinctSeqs(S, n) ==
    UNION { { s \in [1..k -> S] : \A i, j \in 1..k : i # j => s[i] # s[j] }
            : k \in 0..n }

\* The bar history whose period timestamps are ds.
BarsOf(ds) == [i \in 1..Len(ds) |-> [date |-> ds[i]]]

SelIdle ==
    /\ sel_dates = <<>>
    /\ sel_now = Date(2024, 6, 15)
    /\ row = None
    /\ previous_month_candle = None
    /\ sel_ran = {}

PivIdle ==
    /\ piv_bar = <<0, 0, 0>>
    /\ piv_last = None
    /\ cli_out = [kind |-> "none"]
    /\ app_res = None
    /\ piv_ran = {}

ResIdle ==
    /\ universe = [kind |-> "raise"]
    /\ cli_resolved = [kind |-> "none"]
    /\ app_resolved = <<>>
    /\ res_ran = {}

FetchIdle ==
    /\ downloads = <<>>
    /\ fetched_df = [result |-> None, attempts |-> 0, sleeps |-> <<>>]
    /\ chart = [kind |-> "raise"]
    /\ fetched_candles = None
    /\ chart_requests = 0
    /\ fetch_ran = {}

CliIdle ==
    /\ cli_pc = "off"
    /\ cli_limit = None
    /\ cli_universe = [kind |-> "raise"]
    /\ cli_symbols = <<>>
    /\ cli_i = 1
    /\ cli_fetched = <<>>
    /\ out_rows = <<>>
    /\ written = None

AppIdle ==
    /\ app_pc = "off"
    /\ fab_disabled = FALSE
    /\ app_universe = [kind |-> "raise"]
    /\ app_symbols = <<>>
    /\ app_i = 1
    /\ app_fetched = <<>>
    /\ results = <<>>
    /\ stocks_data = <<>>

UiIdle ==
    /\ page_fab_disabled = FALSE
    /\ scans = <<>>
    /\ results_list = <<>>

SelInit ==
    /\ sel_dates \in DistinctSeqs(SelDates, MaxBars)
    /\ sel_now \in SelNows
    /\ row = None
    /\ previous_month_candle = None
    /\ sel_ran = {}
    /\ PivIdle
    /\ ResIdle
    /\ FetchIdle
    /\ CliIdle
    /\ AppIdle
    /\ UiIdle

\* nifty500.py main, line 160: row = last_completed_month_row(monthly_df, now_ts)
RunLastCompletedMonthRow ==
    /\ "cli" \notin sel_ran
    /\ row' = last_completed_month_row(BarsOf(sel_dates), sel_now)
    /\ sel_ran' = sel_ran \cup {"cli"}
    /\ UNCHANGED <<sel_dates, sel_now, previous_month_candle>>
    /\ UNCHANGED <<pivVars, resVars, fetchVars, cliVars, appVars, uiVars>>

\* nifty500_app.py process_ticker, lines 113-125
RunSelectionLoop ==
    /\ "app" \notin sel_ran
    /\ previous_month_candle' =
           select_previous_month_candle(BarsOf(sel_dates), sel_now)
    /\ sel_ran' = sel_ran \cup {"app"}
    /\ UNCHANGED <<sel_dates, sel_now, row>>
    /\ UNCHANGED <<pivVars, resVars, fetchVars, cliVars, appVars, uiVars>>

SelNext == RunLastCompletedMonthRow \/ RunSelectionLoop

SpecSelect == SelInit /\ [][SelNext]_vars

-----------------------------------------------------------------------------
(* Claims about the Period Selector *)

\* The bars of the history that are outside the reference month.
SelCompleted == { i \in 1..Len(sel_dates) : ~ SameMonth(sel_dates[i], sel_now) }

\* o is the most recent bar outside the reference month.
IsMostRecentCompleted(o) ==
    /\ Len(o) = 1
    /\ \E i \in SelCompleted : o[1].date = sel_dates[i]
    /\ \A j \in SelCompleted : ~ DateLt(o[1].date, sel_dates[j])

\* C1: whenever at least one bar lies outside the reference (year, month),
\* both last_completed_month_row and the selection loop of process_ticker
\* return the most recent such bar.
C1_MostRecentCompleted ==
    SelCompleted # {} =>
        /\ "cli" \in sel_ran => IsMostRecentCompleted(row)
        /\ "app" \in sel_ran => IsMostRecentCompleted(previous_month_candle)

\* The case of the spec: bars [..., 2024-05, 2024-06], now = 2024-06-15,
\* both selectors have run and returned the 2024-05 bar.
C1_Witness ==
    /\ sel_ran = {"cli", "app"}
    /\ sel_now = Date(2024, 6, 15)
    /\ sel_dates = <<Date(2023, 6, 1), Date(2024, 5, 1), Date(2024, 6, 1)>>
    /\ row = Some([date |-> Date(2024, 5, 1)])
    /\ previous_month_candle = Some([date |-> Date(2024, 5, 1)])

\* What C2 expects of a selector result o.
SelectorContract(o) ==
    LET sorted == SortByDate(BarsOf(sel_dates))
    IN  /\ IsNone(o) <=> ( \/ sel_dates = <<>>
                           \/ Len(sel_dates) = 1 /\ SelCompleted = {} )
        /\ (SelCompleted = {} /\ Len(sel_dates) >= 2)
               => o = Some(sorted[Len(sorted) - 1])

\* C2: a selector returns None exactly when the history is empty or is a
\* single bar in the reference month, and falls back to the second-to-last
\* bar when every bar is in the reference month and there are at least two;
\* for last_completed_month_row and for the selection loop of process_ticker.
C2_NoneExactlyWhenNothingUsable ==
    /\ "cli" \in sel_ran => SelectorContract(row)
    /\ "app" \in sel_ran => SelectorContract(previous_month_candle)

-----------------------------------------------------------------------------
(* Specification SpecPivot: one ticker whose history is the bar of the     *)
(* last completed month (2024-05), optionally followed by a bar of the     *)
(* current month (2024-06), through the loop body of main (nifty500.py)    *)
(* and through process_ticker and the filter of scan_thread                *)
(* (nifty500_app.py).  Prices are in half-paise.                           *)

PivNow == Date(2024, 6, 15)

\* A grid of small prices: 0, 9.50, 10.00, 10.50 and 11.50 rupees.
PivGrid == {0, 1900, 2000, 2100, 2300}

\* <<high, low, close>> of the completed month: the grid, and the cases at
\* the edges of the filter and of the division.
PivBars ==
    (PivGrid \X PivGrid \X PivGrid) \cup
    { <<22000, 18000, 20000>>,   \* 110 / 90 / 100: percent range 11.64
      <<5063, 4543, 4543>>,      \* percent range exactly 6.5
      <<37000, 33200, 33200>>,   \* 185 / 166 / 166: percent range 6.4998
      <<89200, 80000, 82600>>,   \* 446 / 400 / 413: percent range 6.32
      <<21200, 20000, 20400>>,   \* 106 / 100 / 102: percent range 3.29
      <<4000, 0, 1100>> }        \* S3 = 0

PivLasts == { None, Some(2000), Some(24001), Some(20399) }

\* The DataFrame fetch_monthly_df hands to main.
PivRows ==
    <<[ date |-> Date(2024, 5, 1), open |-> Some(piv_bar[2]),
        high |-> Some(piv_bar[1]), low |-> Some(piv_bar[2]),
        close |-> Some(piv_bar[3]) ]>>
    \o (IF IsNone(piv_last) THEN <<>>
        ELSE <<[ date |-> Date(2024, 6, 1), open |-> piv_last,
                 high |-> piv_last, low |-> piv_last, close |-> piv_last ]>>)

\* The candles get_yahoo_data_pure hands to process_ticker.
PivCandles ==
    <<[ date |-> Date(2024, 5, 1), high |-> piv_bar[1], low |-> piv_bar[2],
        close |-> piv_bar[3] ]>>
    \o (IF IsNone(piv_last) THEN <<>>
        ELSE <<[ date |-> Date(2024, 6, 1), high |-> piv_last[1],
                 low |-> piv_last[1], close |-> piv_last[1] ]>>)

PivInit ==
    /\ piv_bar \in PivBars
    /\ piv_last \in PivLasts
    /\ cli_out = [kind |-> "none"]
    /\ app_res = None
    /\ piv_ran = {}
    /\ SelIdle
    /\ ResIdle
    /\ FetchIdle
    /\ CliIdle
    /\ AppIdle
    /\ UiIdle

\* nifty500.py main, lines 147-197, for one ticker
RunCliTicker ==
    /\ "cli" \notin piv_ran
    /\ cli_out' = cli_ticker("T", Some(PivRows), PivNow)
    /\ piv_ran' = piv_ran \cup {"cli"}
    /\ UNCHANGED <<piv_bar, piv_last, app_res>>
    /\ UNCHANGED <<selVars, resVars, fetchVars, cliVars, appVars, uiVars>>

\* nifty500_app.py scan_thread, line 328: res = process_ticker(tick)
RunProcessTicker ==
    /\ "app" \notin piv_ran
    /\ app_res' = process_ticker("T", Some(PivCandles), PivNow)
    /\ piv_ran' = piv_ran \cup {"app"}
    /\ UNCHANGED <<piv_bar, piv_last, cli_out>>
    /\ UNCHANGED <<selVars, resVars, fetchVars, cliVars, appVars, uiVars>>

PivNext == RunCliTicker \/ RunProcessTicker

SpecPivot == PivInit /\ [][PivNext]_vars

-----------------------------------------------------------------------------
(* Claims about the Pivot Calculator and the filter *)

\* main appended a result row for the ticker.
CliRetained == cli_out.kind = "row" /\ cli_out.row.error = ""

\* C3 as amended: for a selected bar with high >= low, the row main appends
\* satisfies r3 >= close >= s3 on its own fields; the dict of process_ticker
\* satisfies r3 >= round(close of the selected bar, 2) >= s3, and its close
\* field is the rounded close of the last candle of the history.
C3_PivotBracketsSelectedClose ==
    piv_bar[1] >= piv_bar[2] =>
        /\ CliRetained =>
               /\ cli_out.row.r3[1] >= cli_out.row.close[1]
               /\ cli_out.row.close[1] >= cli_out.row.s3[1]
        /\ ~ IsNone(app_res) =>
               /\ app_res[1].r3 >= RoundHalfEven(piv_bar[3], 2)
               /\ RoundHalfEven(piv_bar[3], 2) >= app_res[1].s3
               /\ app_res[1].close =
                      RoundHalfEven(PivCandles[Len(PivCandles)].close, 2)

\* Both programs emitted a record for 106 / 100 / 102, followed by a
\* current-month bar closing at 120.005.
C3_Witness ==
    /\ piv_ran = {"cli", "app"}
    /\ piv_bar = <<21200, 20000, 20400>>
    /\ piv_last = Some(24001)
    /\ CliRetained
    /\ cli_out.row.r3 = Some(104) /\ cli_out.row.s3 = Some(100)
    /\ cli_out.row.close = Some(102)
    /\ ~ IsNone(app_res)
    /\ app_res[1].r3 = 10365 /\ app_res[1].s3 = 10035
    /\ app_res[1].close = 12000

\* C3 as stated: every emitted record for a selected bar with high >= low
\* satisfies r3 >= close >= s3 on its own fields, in both programs.
C3_Original ==
    piv_bar[1] >= piv_bar[2] =>
        /\ CliRetained =>
               /\ cli_out.row.r3[1] >= cli_out.row.close[1]
               /\ cli_out.row.close[1] >= cli_out.row.s3[1]
        /\ ~ IsNone(app_res) =>
               /\ app_res[1].r3 >= app_res[1].close
               /\ app_res[1].close >= app_res[1].s3

\* S3 and the percent range of the selected bar without any rounding:
\* S3 = (40 C - 11 (H - L)) / 40, percent range = 2200 (H - L) / (40 C - 11 (H - L)).
ExactS3Num == 40 * piv_bar[3] - CAM_MULT_TENTHS * (piv_bar[1] - piv_bar[2])

ExactPct == Rat(200 * CAM_MULT_TENTHS * (piv_bar[1] - piv_bar[2]), ExactS3Num)

ExactKeeps == ExactS3Num # 0 /\ RatLt(ExactPct, PctLimit)

\* C4: a ticker is retained if and only if S3 # 0 and the percent range of
\* the selected bar, computed without intermediate rounding, is strictly
\* below 6.5; in main and in scan_thread.
C4_RetainedIffExactBelowLimit ==
    /\ "cli" \in piv_ran => (CliRetained <=> ExactKeeps)
    /\ "app" \in piv_ran => (scan_keeps(app_res) <=> ExactKeeps)

-----------------------------------------------------------------------------
(* Specification SpecResolve: the Symbol Resolver of both programs applied *)
(* to one answer of the constituent-list URL.                              *)

\* Values of the symbol column: empty, blank, "A", " a ", "A.NS", "A.BO",
\* "B", "nan" and "NA".
ResCells ==
    { <<>>, <<" ">>, <<"A">>, <<" ", "a", " ">>, <<"A", ".", "N", "S">>,
      <<"A", ".", "B", "O">>, <<"B">>, <<"n", "a", "n">>, <<"N", "A">> }

\* Two layouts: header "Name", " Symbol " with the symbols in column 2, and
\* header "Sym", "Name" (no symbol-like name) with the symbols in column 1.
ResLayouts ==
    { [ header |-> << <<"N", "a", "m", "e">>,
                      <<" ", "S", "y", "m", "b", "o", "l", " ">> >>,
        col |-> 2 ],
      [ header |-> << <<"S", "y", "m">>, <<"N", "a", "m", "e">> >>,
        col |-> 1 ] }

\* The CSV text with the given layout whose symbol column holds cells.
CsvOf(layout, cells) ==
    [ kind   |-> "text",
      header |-> layout.header,
      rows   |-> [i \in 1..Len(cells) |->
                     [j \in 1..Len(layout.header) |->
                         IF j = layout.col THEN cells[i] ELSE <<"X">>]] ]

SeqsUpTo(S, n) == UNION { [1..k -> S] : k \in 0..n }

\* The answers of the URL: a failure, a text without a header row, a CSV.
Universes(cells) ==
    { [kind |-> "raise"], [kind |-> "text", header |-> <<>>, rows |-> <<>>] }
    \cup { CsvOf(l, c) : l \in ResLayouts, c \in cells }

ResInit ==
    /\ universe \in Universes(SeqsUpTo(ResCells, MaxRows))
    /\ cli_resolved = [kind |-> "none"]
    /\ app_resolved = <<>>
    /\ res_ran = {}
    /\ SelIdle
    /\ PivIdle
    /\ FetchIdle
    /\ CliIdle
    /\ AppIdle
    /\ UiIdle

\* nifty500.py main, line 134: symbols = fetch_nifty500_symbols()
RunCliResolver ==
    /\ "cli" \notin res_ran
    /\ cli_resolved' = fetch_nifty500_symbols(universe)
    /\ res_ran' = res_ran \cup {"cli"}
    /\ UNCHANGED <<universe, app_resolved>>
    /\ UNCHANGED <<selVars, pivVars, fetchVars, cliVars, appVars, uiVars>>

\* nifty500_app.py scan_thread, line 321: symbols = fetch_nifty500_symbols()
RunAppResolver ==
    /\ "app" \notin res_ran
    /\ app_resolved' \in app_fetch_nifty500_symbols(universe)
    /\ res_ran' = res_ran \cup {"app"}
    /\ UNCHANGED <<universe, cli_resolved>>
    /\ UNCHANGED <<selVars, pivVars, fetchVars, cliVars, appVars, uiVars>>

ResNext == RunCliResolver \/ RunAppResolver

SpecResolve == ResInit /\ [][ResNext]_vars

-----------------------------------------------------------------------------
(* Claims about the Symbol Resolver *)

\* The values of the symbol column of the constituent list, in row order.
UniverseCells ==
    IF universe.kind = "raise" \/ universe.header = <<>> THEN <<>>
    ELSE LET l == CHOOSE l \in ResLayouts : l.header = universe.header
         IN  [i \in 1..Len(universe.rows) |-> universe.rows[i][l.col]]

\* The symbol a value stands for: trimmed, uppercased, ".NS" appended unless
\* it ends in ".NS" or ".BO".
SymbolOf(cell) ==
    LET v == Upper(Strip(cell))
    IN  IF EndsWith(v, DotNS) \/ EndsWith(v, DotBO) THEN v ELSE v \o DotNS

\* Rows whose value is neither empty nor "NAN".
UsableRows ==
    { i \in 1..Len(UniverseCells) :
        /\ Upper(Strip(UniverseCells[i])) # <<>>
        /\ Upper(Strip(UniverseCells[i])) # <<"N", "A", "N">> }

FirstRowOf(sym) ==
    CHOOSE i \in UsableRows :
        /\ SymbolOf(UniverseCells[i]) = sym
        /\ \A j \in UsableRows : SymbolOf(UniverseCells[j]) = sym => i <= j

\* out is the list of the symbols of the usable rows, each once, in
\* first-seen row order.
FirstSeenOrder(out) ==
    /\ \A i, j \in 1..Len(out) : i # j => out[i] # out[j]
    /\ Range(out) = { SymbolOf(UniverseCells[i]) : i \in UsableRows }
    /\ \A i, j \in 1..Len(out) : i < j => FirstRowOf(out[i]) < FirstRowOf(out[j])

\* C9: for every constituent list, fetch_nifty500_symbols of both programs
\* returns each suffixed symbol exactly once and in first-seen row order.
C9_DedupedInFirstSeenOrder ==
    universe.kind = "text" /\ universe.header # <<>> =>
        /\ "cli" \in res_ran =>
               cli_resolved.kind = "ok" /\ FirstSeenOrder(cli_resolved.symbols)
        /\ "app" \in res_ran => FirstSeenOrder(app_resolved)

-----------------------------------------------------------------------------
(* Specification SpecFetch: the Monthly Bar Fetcher of both programs       *)
(* applied to one ticker, for every behaviour of the provider.             *)

FetchDates == <<Date(2024, 5, 1), Date(2024, 6, 1), Date(2024, 7, 1)>>

\* A monthly DataFrame with one row.
OneRowDf ==
    <<[ date |-> Date(2024, 5, 1), open |-> Some(20000), high |-> Some(21200),
        low |-> Some(20000), close |-> Some(20400) ]>>

\* A monthly DataFrame whose first row has NaN in High and Close (a month
\* without trades), followed by a complete row.
NaNCloseDf ==
    <<[ date |-> Date(2024, 4, 1), open |-> Some(20000), high |-> None,
        low |-> Some(20000), close |-> None ]>> \o OneRowDf

\* What yf.download may do on one attempt: raise, return None, return an
\* empty DataFrame, return data.
Downloads ==
    { [kind |-> "raise"], [kind |-> "df", df |-> None],
      [kind |-> "df", df |-> Some(<<>>)], [kind |-> "df", df |-> Some(OneRowDf)],
      [kind |-> "df", df |-> Some(NaNCloseDf)] }

\* The answers of the chart URL: a failure, a JSON without result, and
\* JSON payloads with up to MaxEntries timestamps and arrays of null or
\* numeric entries, possibly shorter than the timestamps.
Charts ==
    { [kind |-> "raise"],
      [ kind |-> "json", result |-> FALSE, timestamp |-> <<>>, high |-> <<>>,
        low |-> <<>>, close |-> <<>> ] }
    \cup
    { [ kind |-> "json", result |-> TRUE, timestamp |-> SubSeq(FetchDates, 1, n),
        high |-> h, low |-> l, close |-> c ] :
        n \in 0..MaxEntries,
        h \in SeqsUpTo({None, Some(21200)}, MaxEntries),
        l \in { [i \in 1..k |-> Some(20000)] : k \in 0..MaxEntries },
        c \in SeqsUpTo({None, Some(20400)}, MaxEntries) }

FetchInit ==
    /\ \/ /\ downloads \in [1..(MAX_RETRIES + 1) -> Downloads]
          /\ chart = [kind |-> "raise"]
       \/ /\ downloads = [k \in 1..(MAX_RETRIES + 1) |-> [kind |-> "raise"]]
          /\ chart \in Charts
    /\ fetched_df = [result |-> None, attempts |-> 0, sleeps |-> <<>>]
    /\ fetched_candles = None
    /\ chart_requests = 0
    /\ fetch_ran = {}
    /\ SelIdle
    /\ PivIdle
    /\ ResIdle
    /\ CliIdle
    /\ AppIdle
    /\ UiIdle

\* nifty500.py main, line 147: monthly_df = fetch_monthly_df(ticker, ...)
RunFetchMonthlyDf ==
    /\ "cli" \notin fetch_ran
    /\ fetched_df' = fetch_monthly_df(downloads, MAX_RETRIES)
    /\ fetch_ran' = fetch_ran \cup {"cli"}
    /\ UNCHANGED <<downloads, chart, fetched_candles, chart_requests>>
    /\ UNCHANGED <<selVars, pivVars, resVars, cliVars, appVars, uiVars>>

\* nifty500_app.py process_ticker, line 109: candles = get_yahoo_data_pure(ticker);
\* its only request is the fetch_url call of line 72.
RunGetYahooData ==
    /\ "app" \notin fetch_ran
    /\ fetched_candles' = get_yahoo_data_pure(chart)
    /\ chart_requests' = chart_requests + 1
    /\ fetch_ran' = fetch_ran \cup {"app"}
    /\ UNCHANGED <<downloads, fetched_df, chart>>
    /\ UNCHANGED <<selVars, pivVars, resVars, cliVars, appVars, uiVars>>

FetchNext == RunFetchMonthlyDf \/ RunGetYahooData

SpecFetch == FetchInit /\ [][FetchNext]_vars

-----------------------------------------------------------------------------
(* Claims about the Monthly Bar Fetcher *)

\* Attempt k of yf.download fails transiently: it raises, or its payload is
\* missing or empty.
DownloadFails(k) ==
    \/ downloads[k].kind = "raise"
    \/ IsNone(downloads[k].df)
    \/ downloads[k].df[1] = <<>>

\* The chart request fails transiently: an error, a malformed or an empty
\* payload.
ChartFails ==
    \/ chart.kind = "raise"
    \/ ~ chart.result
    \/ chart.timestamp = <<>>
    \/ chart.close = <<>>

\* C7: on a transient failure of an attempt the Fetcher retries, making at
\* most max_retries + 1 attempts with a backoff that grows linearly with the
\* attempt index, and returns None only once the retries are exhausted; for
\* fetch_monthly_df and for get_yahoo_data_pure.
C7_RetriesUntilExhausted ==
    /\ "cli" \in fetch_ran =>
           /\ fetched_df.attempts <= MAX_RETRIES + 1
           /\ \A k \in 1..fetched_df.attempts :
                  (DownloadFails(k) /\ k <= MAX_RETRIES) => fetched_df.attempts > k
           /\ \A k \in 1..Len(fetched_df.sleeps) : fetched_df.sleeps[k] = k
    /\ "app" \in fetch_ran =>
           /\ chart_requests <= MAX_RETRIES + 1
           /\ ChartFails => chart_requests > 1

\* The indices, in increasing order, of the entries 1..n of a payload whose
\* close is present.
RECURSIVE KeptIdx(_, _)
KeptIdx(closes, n) ==
    IF n = 0 THEN <<>>
    ELSE IF IsNone(closes[n]) THEN KeptIdx(closes, n - 1)
    ELSE Append(KeptIdx(closes, n - 1), n)

\* A possibly missing number, 0 standing for a missing one.
ValueOr0(x) == IF IsNone(x) THEN 0 ELSE x[1]

\* The payload fetch_monthly_df returned from: the DataFrame of its last
\* attempt.
ReturnedDf == downloads[fetched_df.attempts].df[1]

\* The candles are the chart entries that have a close, in the order of
\* the timestamps, a missing high or low being 0.
AppBarsCleaned ==
    LET candles == fetched_candles[1]
        kept    == KeptIdx(chart.close, Len(chart.timestamp))
    IN  /\ Len(candles) = Len(kept)
        /\ \A j \in 1..Len(kept) :
               /\ candles[j].date = chart.timestamp[kept[j]]
               /\ candles[j].close = chart.close[kept[j]][1]
               /\ candles[j].high = ValueOr0(chart.high[kept[j]])
               /\ candles[j].low = ValueOr0(chart.low[kept[j]])

\* The DataFrame is the downloaded rows that have a Close, in the order of
\* the index, a missing High or Low being 0.
CliBarsCleaned ==
    LET df   == fetched_df.result[1]
        rows == ReturnedDf
        kept == KeptIdx([i \in 1..Len(rows) |-> rows[i].close], Len(rows))
    IN  /\ Len(df) = Len(kept)
        /\ \A j \in 1..Len(kept) :
               /\ df[j].date = rows[kept[j]].date
               /\ df[j].close = rows[kept[j]].close
               /\ df[j].high = Some(ValueOr0(rows[kept[j]].high))
               /\ df[j].low = Some(ValueOr0(rows[kept[j]].low))

\* C11: the bars the Fetcher returns on success contain no bar with a
\* missing close: every payload entry without a close is dropped, every
\* entry with a close is kept in timestamp order, and a missing high or low
\* of a kept entry is replaced by 0; for get_yahoo_data_pure and for
\* fetch_monthly_df.
C11_NoBarWithoutClose ==
    /\ ("app" \in fetch_ran /\ ~ IsNone(fetched_candles)) => AppBarsCleaned
    /\ ("cli" \in fetch_ran /\ ~ IsNone(fetched_df.result)) => CliBarsCleaned

-----------------------------------------------------------------------------
(* Whole runs: main of nifty500.py and scan_thread of nifty500_app.py *)

\* s[:n]
Take(s, n) == SubSeq(s, 1, IF n < Len(s) THEN n ELSE Len(s))

\* nifty500_app.py line 322: symbols[:30]
SCAN_LIMIT == 30

\* Order of the pct_range_r3 column under sort_values: ascending, NaN last.
PctLe(a, b) == IsNone(b) \/ (~ IsNone(a) /\ a[1] <= b[1])

\* nifty500.py line 201: df.sort_values("pct_range_r3", ascending=True).
\* The default sort kind is not stable: every arrangement of the rows that
\* is ascending in the key is a possible outcome.
sort_values(rows) ==
    { [i \in 1..Len(rows) |-> rows[p[i]]] : p \in
        { q \in Permutations(1..Len(rows)) :
            \A i \in 1..(Len(rows) - 1) :
                PctLe(rows[q[i]].pct_range_r3, rows[q[i + 1]].pct_range_r3) } }

\* Stable insertion of res into the list rs sorted by pct_range.
RECURSIVE InsertByPct(_, _)
InsertByPct(rs, res) ==
    IF rs = <<>> THEN <<res>>
    ELSE IF res.pct_range < rs[Len(rs)].pct_range
         THEN Append(InsertByPct(SubSeq(rs, 1, Len(rs) - 1), res), rs[Len(rs)])
         ELSE Append(rs, res)

\* nifty500_app.py line 332: results.sort(key=lambda x: x["pct_range"]),
\* a stable sort.
RECURSIVE sort_by_pct_range(_)
sort_by_pct_range(rs) ==
    IF rs = <<>> THEN <<>>
    ELSE InsertByPct(sort_by_pct_range(SubSeq(rs, 1, Len(rs) - 1)), rs[Len(rs)])

-----------------------------------------------------------------------------
(* Specification SpecRun: one run of main (nifty500.py), or scans of the   *)
(* application (nifty500_app.py), over a constituent list of at most       *)
(* MaxTickers rows, for every behaviour of the list URL and of the price   *)
(* provider.                                                               *)

RunNow == Date(2024, 6, 15)

\* Monthly rows: 106/100/102, 104/100/102, 110/90/100, 20/0/5.50 (S3 = 0),
\* a row whose High is NaN, and a row of the current month.
RowOf(d, h, l, c) ==
    [date |-> d, open |-> Some(l), high |-> h, low |-> Some(l), close |-> Some(c)]

RunDfs ==
    { <<RowOf(Date(2024, 5, 1), Some(21200), 20000, 20400),
        RowOf(Date(2024, 6, 1), Some(24000), 23000, 24000)>>,
      <<RowOf(Date(2024, 5, 1), Some(20800), 20000, 20400)>>,
      <<RowOf(Date(2024, 5, 1), Some(22000), 18000, 20000)>>,
      <<RowOf(Date(2024, 5, 1), Some(4000), 0, 1100)>>,
      <<RowOf(Date(2024, 5, 1), None, 20000, 20400)>>,
      <<RowOf(Date(2024, 6, 1), Some(21200), 20000, 20400)>> }

\* What yf.download does on the attempts for one ticker: it always raises,
\* it returns an empty DataFrame, it returns data at once, or it raises once
\* and then returns data.
RunDownloads ==
    { [k \in 1..(MAX_RETRIES + 1) |-> [kind |-> "raise"]],
      [k \in 1..(MAX_RETRIES + 1) |-> [kind |-> "df", df |-> Some(<<>>)]] }
    \cup { [k \in 1..(MAX_RETRIES + 1) |-> [kind |-> "df", df |-> Some(d)]] :
             d \in RunDfs }
    \cup { [k \in 1..(MAX_RETRIES + 1) |->
               IF k = 1 THEN [kind |-> "raise"] ELSE [kind |-> "df", df |-> Some(d)]] :
             d \in RunDfs }

\* The chart payload with the given candles.
ChartOf(cs) ==
    [ kind |-> "json", result |-> TRUE,
      timestamp |-> [i \in 1..Len(cs) |-> cs[i].date],
      high  |-> [i \in 1..Len(cs) |-> cs[i].high],
      low   |-> [i \in 1..Len(cs) |-> cs[i].low],
      close |-> [i \in 1..Len(cs) |-> cs[i].close] ]

EntryOf(d, h, l, c) == [date |-> d, high |-> h, low |-> l, close |-> c]

\* The answers of the chart URL for one ticker: a failure, a JSON without
\* result, and payloads for the same bars as RunDfs, with an entry whose
\* close is null in place of the row whose High is NaN.
RunCharts ==
    { [kind |-> "raise"],
      [ kind |-> "json", result |-> FALSE, timestamp |-> <<>>, high |-> <<>>,
        low |-> <<>>, close |-> <<>> ],
      ChartOf(<<EntryOf(Date(2024, 5, 1), Some(21200), Some(20000), Some(20400)),
                EntryOf(Date(2024, 6, 1), Some(24000), Some(23000), Some(24000))>>),
      ChartOf(<<EntryOf(Date(2024, 5, 1), Some(20800), Some(20000), Some(20400))>>),
      ChartOf(<<EntryOf(Date(2024, 5, 1), Some(22000), Some(18000), Some(20000))>>),
      ChartOf(<<EntryOf(Date(2024, 5, 1), Some(4000), Some(0), Some(1100))>>),
      ChartOf(<<EntryOf(Date(2024, 5, 1), Some(21200), Some(20000), None)>>),
      ChartOf(<<EntryOf(Date(2024, 6, 1), Some(21200), Some(20000), Some(20400))>>) }

RunCells == { <<"A">>, <<"B">> }

RunUniverses == Universes(SeqsUpTo(RunCells, MaxTickers))

RunLimits == { None, Some(1) }

RunInit ==
    /\ \/ /\ cli_pc = "start"
          /\ cli_limit \in RunLimits
          /\ app_pc = "off"
       \/ /\ cli_pc = "off"
          /\ cli_limit = None
          /\ app_pc = "idle"
    /\ cli_universe = [kind |-> "raise"]
    /\ cli_symbols = <<>>
    /\ cli_i = 1
    /\ cli_fetched = <<>>
    /\ out_rows = <<>>
    /\ written = None
    /\ fab_disabled = FALSE
    /\ app_universe = [kind |-> "raise"]
    /\ app_symbols = <<>>
    /\ app_i = 1
    /\ app_fetched = <<>>
    /\ results = <<>>
    /\ stocks_data = <<>>
    /\ SelIdle
    /\ PivIdle
    /\ ResIdle
    /\ FetchIdle
    /\ UiIdle

otherVars == <<selVars, pivVars, resVars, fetchVars, uiVars>>

\* nifty500.py main, lines 132-145: resolve the universe; return 1 when the
\* resolver raises, else apply --limit and enter the loop.
CliFetchSymbols ==
    /\ cli_pc = "start"
    /\ \E u \in RunUniverses :
           LET r == fetch_nifty500_symbols(u)
           IN  /\ cli_universe' = u
               /\ IF r.kind = "raise"
                  THEN /\ cli_pc' = "failed"
                       /\ UNCHANGED cli_symbols
                  ELSE /\ cli_pc' = "loop"
                       /\ cli_symbols' =
                              IF ~ IsNone(cli_limit) /\ cli_limit[1] # 0
                              THEN Take(r.symbols, cli_limit[1])
                              ELSE r.symbols
    /\ UNCHANGED <<cli_limit, cli_i, cli_fetched, out_rows, written>>
    /\ UNCHANGED <<appVars, otherVars>>

\* nifty500.py main, lines 146-197: one iteration of the per-ticker loop.
CliTicker ==
    /\ cli_pc = "loop"
    /\ cli_i <= Len(cli_symbols)
    /\ \E d \in RunDownloads :
           LET ticker == cli_symbols[cli_i]
               f      == fetch_monthly_df(d, MAX_RETRIES)
               o      == cli_ticker(ticker, f.result, RunNow)
           IN  /\ cli_fetched' = Append(cli_fetched, ticker)
               /\ IF o.kind = "raise"
                  THEN /\ cli_pc' = "raised"
                       /\ UNCHANGED <<cli_i, out_rows>>
                  ELSE /\ cli_i' = cli_i + 1
                       /\ out_rows' = IF o.kind = "row"
                                      THEN Append(out_rows, o.row)
                                      ELSE out_rows
                       /\ UNCHANGED cli_pc
    /\ UNCHANGED <<cli_limit, cli_universe, cli_symbols, written>>
    /\ UNCHANGED <<appVars, otherVars>>

\* nifty500.py main, lines 199-210: sort, write the CSV, preview.  With no
\* row at all the DataFrame has no "error" column and the preview of line
\* 206 raises KeyError after the file is written.
CliWrite ==
    /\ cli_pc = "loop"
    /\ cli_i > Len(cli_symbols)
    /\ \E df \in sort_values(out_rows) : written' = Some(df)
    /\ cli_pc' = IF out_rows = <<>> THEN "preview_raised" ELSE "done"
    /\ UNCHANGED <<cli_limit, cli_universe, cli_symbols, cli_i, cli_fetched,
                   out_rows>>
    /\ UNCHANGED <<appVars, otherVars>>

\* nifty500_app.py run_scan, lines 311-342: disable the button and start
\* scan_thread.
RunScan ==
    /\ app_pc \in {"idle", "done"}
    /\ ~ fab_disabled
    /\ fab_disabled' = TRUE
    /\ app_pc' = "fetch"
    /\ UNCHANGED <<app_universe, app_symbols, app_i, app_fetched, results,
                   stocks_data>>
    /\ UNCHANGED <<cliVars, otherVars>>

\* nifty500_app.py scan_thread, lines 321-325.
AppFetchSymbols ==
    /\ app_pc = "fetch"
    /\ \E u \in RunUniverses :
           /\ app_universe' = u
           /\ \E syms \in app_fetch_nifty500_symbols(u) :
                  app_symbols' = Take(syms, SCAN_LIMIT)
    /\ results' = <<>>
    /\ app_i' = 1
    /\ app_fetched' = <<>>
    /\ app_pc' = "loop"
    /\ UNCHANGED <<fab_disabled, stocks_data>>
    /\ UNCHANGED <<cliVars, otherVars>>

\* nifty500_app.py scan_thread, lines 327-330: one iteration of the loop.
AppTicker ==
    /\ app_pc = "loop"
    /\ app_i <= Len(app_symbols)
    /\ \E c \in RunCharts :
           LET tick == app_symbols[app_i]
               res  == process_ticker(tick, get_yahoo_data_pure(c), RunNow)
           IN  /\ app_fetched' = Append(app_fetched, tick)
               /\ results' = IF scan_keeps(res) THEN Append(results, res[1])
                             ELSE results
    /\ app_i' = app_i + 1
    /\ UNCHANGED <<app_pc, fab_disabled, app_universe, app_symbols, stocks_data>>
    /\ UNCHANGED <<cliVars, otherVars>>

\* nifty500_app.py scan_thread, lines 332-336, and scan_complete, 344-348.
AppComplete ==
    /\ app_pc = "loop"
    /\ app_i > Len(app_symbols)
    /\ results' = sort_by_pct_range(results)
    /\ stocks_data' = sort_by_pct_range(results)
    /\ fab_disabled' = FALSE
    /\ app_pc' = "done"
    /\ UNCHANGED <<app_universe, app_symbols, app_i, app_fetched>>
    /\ UNCHANGED <<cliVars, otherVars>>

RunNext ==
    \/ CliFetchSymbols
    \/ CliTicker
    \/ CliWrite
    \/ RunScan
    \/ AppFetchSymbols
    \/ AppTicker
    \/ AppComplete

SpecRun == RunInit /\ [][RunNext]_vars

-----------------------------------------------------------------------------
(* Claims about whole runs *)

\* Order of characters and of strings, as Python compares them ("." is
\* below the letters).
CharRank(c) ==
    IF \E i \in 1..26 : UpperLetters[i] = c
    THEN CHOOSE i \in 1..26 : UpperLetters[i] = c
    ELSE 0

RECURSIVE StrLt(_, _)
StrLt(a, b) ==
    IF b = <<>> THEN FALSE
    ELSE IF a = <<>> THEN TRUE
    ELSE IF a[1] = b[1] THEN StrLt(Tail(a), Tail(b))
    ELSE CharRank(a[1]) < CharRank(b[1])

\* The result rows of the CSV file, in file order.
IsResultRow(r) == r.error = ""

CliRanked == IF IsNone(written) THEN <<>> ELSE SelectSeq(written[1], IsResultRow)

\* main has come to its end.
CliEnded == cli_pc \in {"done", "preview_raised"}

\* C5: the ranked output is ascending by percent range, ties broken by
\* ticker symbol ascending; in the CSV of main and in stocks_data.
C5_RankedByPctThenTicker ==
    /\ CliEnded =>
           \A i, j \in 1..Len(CliRanked) : i < j =>
               \/ CliRanked[i].pct_range_r3[1] < CliRanked[j].pct_range_r3[1]
               \/ /\ CliRanked[i].pct_range_r3 = CliRanked[j].pct_range_r3
                  /\ StrLt(CliRanked[i].ticker, CliRanked[j].ticker)
    /\ app_pc = "done" =>
           \A i, j \in 1..Len(stocks_data) : i < j =>
               \/ stocks_data[i].pct_range < stocks_data[j].pct_range
               \/ /\ stocks_data[i].pct_range = stocks_data[j].pct_range
                  /\ StrLt(stocks_data[i].ticker, stocks_data[j].ticker)

\* C6: no per-ticker failure terminates the run: the loop never ends in an
\* exception, and a run that ends has handled every ticker of the universe.
C6_NoTickerFailureEndsRun ==
    /\ cli_pc # "raised"
    /\ CliEnded => cli_fetched = cli_symbols
    /\ app_pc = "done" => app_fetched = app_symbols

\* C8: after a run every ticker of the universe is in the ranked results or
\* has a recorded outcome with a reason.
C8_EveryTickerAccounted ==
    /\ CliEnded =>
           \A t \in Range(cli_symbols) :
               \E i \in 1..Len(written[1]) : written[1][i].ticker = t
    /\ app_pc = "done" =>
           \A t \in Range(app_symbols) :
               \E i \in 1..Len(stocks_data) : stocks_data[i].ticker = t

\* The constituent list could not be fetched, or has no header row.
UniverseFailed(u) == u.kind = "raise" \/ u.header = <<>>

\* main returns 1 exactly on a failed universe, having fetched and screened
\* nothing.
CliAbortsOnFailedUniverse ==
    /\ (cli_pc \notin {"off", "start"} /\ UniverseFailed(cli_universe)) =>
           /\ cli_pc = "failed"
           /\ cli_fetched = <<>>
           /\ out_rows = <<>>
           /\ IsNone(written)
    /\ cli_pc = "failed" => UniverseFailed(cli_universe)

\* C10 as amended: on a failed universe main of nifty500.py returns 1
\* without fetching or screening any ticker; scan_thread of nifty500_app.py
\* instead screens the four fallback symbols when the fetch raises, and an
\* empty universe when the text has no header row.
C10_CliAbortsAppFallsBack ==
    /\ CliAbortsOnFailedUniverse
    /\ (app_pc \in {"loop", "done"} /\ app_universe.kind = "raise") =>
           /\ app_symbols = FALLBACK_SYMBOLS
           /\ Range(app_fetched) \subseteq Range(FALLBACK_SYMBOLS)
           /\ app_pc = "done" => app_fetched = FALLBACK_SYMBOLS
    /\ (app_pc \in {"loop", "done"} /\ app_universe.kind = "text"
            /\ app_universe.header = <<>>) =>
           app_symbols = <<>> /\ app_fetched = <<>>

\* The list URL failed and the application screened the fallback symbols,
\* keeping some of them.
C10_Witness ==
    /\ app_pc = "done"
    /\ app_universe.kind = "raise"
    /\ app_fetched = FALLBACK_SYMBOLS
    /\ stocks_data # <<>>

\* C10 as stated: on a failed universe no ticker is fetched or screened, in
\* either program.
C10_Original ==
    /\ CliAbortsOnFailedUniverse
    /\ (app_pc \in {"loop", "done"} /\ UniverseFailed(app_universe)) =>
           app_fetched = <<>> /\ stocks_data = <<>>

-----------------------------------------------------------------------------
(* The page of nifty500_app.py: the Scan button, run_scan and its threads *)

(* Flet runs the on_click handler of every click it receives, and          *)
(* scan_thread is a thread of its own, so the steps of several run_scan    *)
(* calls interleave.  scans[k] is the k-th call: its position pc, and the  *)
(* locals symbols, i and results of its scan_thread.  fab.disabled lives   *)
(* in the program; the page shows the value it had at the last             *)
(* page.update(), and a click is possible while the page shows the button  *)
(* enabled.                                                                *)

\* The list URL answers with a CSV of one symbol, or with a text without a
\* header row.
ScanUniverses ==
    { CsvOf([header |-> << <<"S", "y", "m", "b", "o", "l">> >>, col |-> 1],
            << <<"A">> >>),
      [kind |-> "text", header |-> <<>>, rows |-> <<>>] }

\* The chart URL answers with the bars 106/100/102 of May 2024 and a bar of
\* June, it fails, or it answers with prices that are not numbers, on which
\* float() of line 130 raises ValueError out of process_ticker.
ScanCharts ==
    { ChartOf(<<EntryOf(Date(2024, 5, 1), Some(21200), Some(20000), Some(20400)),
                EntryOf(Date(2024, 6, 1), Some(24000), Some(23000), Some(24000))>>),
      [kind |-> "raise"],
      [kind |-> "not_numbers"] }

\* The application's variables that the page model leaves alone.
scanOther ==
    <<selVars, pivVars, resVars, fetchVars, cliVars, app_pc, app_universe,
      app_symbols, app_i, app_fetched, results>>

ScanInit ==
    /\ SelIdle
    /\ PivIdle
    /\ ResIdle
    /\ FetchIdle
    /\ CliIdle
    /\ AppIdle
    /\ UiIdle

\* scans with the position of call k moved to pc.
Goto(k, pc) == [scans EXCEPT ![k].pc = pc]

\* page.update(): the page shows the button as the program has it.
page_update == page_fab_disabled' = fab_disabled

\* nifty500_app.py line 370, on_click=run_scan: a click on the button the
\* page shows enabled calls run_scan.
on_click ==
    /\ ~ page_fab_disabled
    /\ Len(scans) < MaxScans
    /\ scans' = Append(scans, [ pc |-> "disable_fab", symbols |-> <<>>,
                                i |-> 1, results |-> <<>> ])
    /\ UNCHANGED <<fab_disabled, stocks_data, page_fab_disabled, results_list>>
    /\ UNCHANGED scanOther

\* run_scan line 313: fab.disabled = True
run_scan_disable_fab ==
    \E k \in DOMAIN scans :
        /\ scans[k].pc = "disable_fab"
        /\ fab_disabled' = TRUE
        /\ scans' = Goto(k, "page_update")
        /\ UNCHANGED <<stocks_data, page_fab_disabled, results_list>>
        /\ UNCHANGED scanOther

\* run_scan line 315: page.update()
run_scan_page_update ==
    \E k \in DOMAIN scans :
        /\ scans[k].pc = "page_update"
        /\ page_update
        /\ scans' = Goto(k, "show_snack")
        /\ UNCHANGED <<fab_disabled, stocks_data, results_list>>
        /\ UNCHANGED scanOther

\* run_scan line 317: show_snack(...), which ends in page.update()
run_scan_show_snack ==
    \E k \in DOMAIN scans :
        /\ scans[k].pc = "show_snack"
        /\ page_update
        /\ scans' = Goto(k, "start_thread")
        /\ UNCHANGED <<fab_disabled, stocks_data, results_list>>
        /\ UNCHANGED scanOther

\* run_scan line 342: threading.Thread(target=scan_thread, ...).start()
run_scan_start_thread ==
    \E k \in DOMAIN scans :
        /\ scans[k].pc = "start_thread"
        /\ scans' = Goto(k, "fetch_symbols")
        /\ UNCHANGED <<fab_disabled, stocks_data, page_fab_disabled, results_list>>
        /\ UNCHANGED scanOther

\* scan_thread lines 321-325: symbols, results = [].
scan_thread_fetch_symbols ==
    \E k \in DOMAIN scans :
        /\ scans[k].pc = "fetch_symbols"
        /\ \E u \in ScanUniverses : \E syms \in app_fetch_nifty500_symbols(u) :
               scans' = [scans EXCEPT ![k] =
                            [ pc |-> "loop", symbols |-> Take(syms, SCAN_LIMIT),
                              i |-> 1, results |-> <<>> ]]
        /\ UNCHANGED <<fab_disabled, stocks_data, page_fab_disabled, results_list>>
        /\ UNCHANGED scanOther

\* scan_thread lines 327-330: one iteration of the loop; an exception of
\* process_ticker goes to the except clause of line 338.
scan_thread_process_ticker ==
    \E k \in DOMAIN scans :
        /\ scans[k].pc = "loop"
        /\ scans[k].i <= Len(scans[k].symbols)
        /\ \E c \in ScanCharts :
               IF c.kind = "not_numbers"
               THEN scans' = Goto(k, "scan_error")
               ELSE LET tick == scans[k].symbols[scans[k].i]
                        res  == process_ticker(tick, get_yahoo_data_pure(c), RunNow)
                    IN  scans' = [scans EXCEPT
                                     ![k].i = @ + 1,
                                     ![k].results = IF scan_keeps(res)
                                                    THEN Append(@, res[1])
                                                    ELSE @]
        /\ UNCHANGED <<fab_disabled, stocks_data, page_fab_disabled, results_list>>
        /\ UNCHANGED scanOther

\* scan_thread line 332: results.sort(key=lambda x: x["pct_range"])
scan_thread_sort ==
    \E k \in DOMAIN scans :
        /\ scans[k].pc = "loop"
        /\ scans[k].i > Len(scans[k].symbols)
        /\ scans' = [scans EXCEPT ![k].pc = "clear",
                                  ![k].results = sort_by_pct_range(@)]
        /\ UNCHANGED <<fab_disabled, stocks_data, page_fab_disabled, results_list>>
        /\ UNCHANGED scanOther

\* scan_thread line 333: stocks_data.clear()
scan_thread_clear ==
    \E k \in DOMAIN scans :
        /\ scans[k].pc = "clear"
        /\ stocks_data' = <<>>
        /\ scans' = Goto(k, "extend")
        /\ UNCHANGED <<fab_disabled, page_fab_disabled, results_list>>
        /\ UNCHANGED scanOther

\* scan_thread line 334: stocks_data.extend(results)
scan_thread_extend ==
    \E k \in DOMAIN scans :
        /\ scans[k].pc = "extend"
        /\ stocks_data' = stocks_data \o scans[k].results
        /\ scans' = Goto(k, "scan_complete")
        /\ UNCHANGED <<fab_disabled, page_fab_disabled, results_list>>
        /\ UNCHANGED scanOther

\* scan_complete line 345: fab.disabled = False
scan_complete_enable_fab ==
    \E k \in DOMAIN scans :
        /\ scans[k].pc = "scan_complete"
        /\ fab_disabled' = FALSE
        /\ scans' = Goto(k, "complete_snack")
        /\ UNCHANGED <<stocks_data, page_fab_disabled, results_list>>
        /\ UNCHANGED scanOther

\* scan_complete line 347: show_snack(...), which ends in page.update()
scan_complete_show_snack ==
    \E k \in DOMAIN scans :
        /\ scans[k].pc = "complete_snack"
        /\ page_update
        /\ scans' = Goto(k, "render_list")
        /\ UNCHANGED <<fab_disabled, stocks_data, results_list>>
        /\ UNCHANGED scanOther

\* scan_complete line 348: render_list() (lines 292-309) makes a card of
\* every stock of stocks_data and ends in page.update(); scan_thread returns.
scan_complete_render_list ==
    \E k \in DOMAIN scans :
        /\ scans[k].pc = "render_list"
        /\ results_list' = [j \in 1..Len(stocks_data) |-> stocks_data[j].ticker]
        /\ page_update
        /\ scans' = Goto(k, "done")
        /\ UNCHANGED <<fab_disabled, stocks_data>>
        /\ UNCHANGED scanOther

\* scan_error line 351: fab.disabled = False
scan_error_enable_fab ==
    \E k \in DOMAIN scans :
        /\ scans[k].pc = "scan_error"
        /\ fab_disabled' = FALSE
        /\ scans' = Goto(k, "error_snack")
        /\ UNCHANGED <<stocks_data, page_fab_disabled, results_list>>
        /\ UNCHANGED scanOther

\* scan_error line 353: show_snack(...), which ends in page.update()
scan_error_show_snack ==
    \E k \in DOMAIN scans :
        /\ scans[k].pc = "error_snack"
        /\ page_update
        /\ scans' = Goto(k, "error_update")
        /\ UNCHANGED <<fab_disabled, stocks_data, results_list>>
        /\ UNCHANGED scanOther

\* scan_error line 354: page.update(); scan_thread returns.
scan_error_page_update ==
    \E k \in DOMAIN scans :
        /\ scans[k].pc = "error_update"
        /\ page_update
        /\ scans' = Goto(k, "done")
        /\ UNCHANGED <<fab_disabled, stocks_data, results_list>>
        /\ UNCHANGED scanOther

ScanNext ==
    \/ on_click
    \/ run_scan_disable_fab
    \/ run_scan_page_update
    \/ run_scan_show_snack
    \/ run_scan_start_thread
    \/ scan_thread_fetch_symbols
    \/ scan_thread_process_ticker
    \/ scan_thread_sort
    \/ scan_thread_clear
    \/ scan_thread_extend
    \/ scan_complete_enable_fab
    \/ scan_complete_show_snack
    \/ scan_complete_render_list
    \/ scan_error_enable_fab
    \/ scan_error_show_snack
    \/ scan_error_page_update

SpecScan == ScanInit /\ [][ScanNext]_vars

-----------------------------------------------------------------------------
(* Claims about the scan threads *)

\* The scan_thread of call s has been started and has not returned.
WorkerRunning(s) ==
    s.pc \notin {"disable_fab", "page_update", "show_snack", "start_thread", "done"}

\* The scan_thread of call s has cleared stocks_data and not yet extended it.
UpdatingStocks(s) == s.pc = "extend"

\* C12: at most one scan worker thread is running at any time, and
\* stocks_data is never cleared/extended by two scans concurrently, the
\* Scan button being disabled from run_scan until scan_complete or
\* scan_error at the end of the thread.
C12_OneScanAtATime ==
    /\ Cardinality({ k \in DOMAIN scans : WorkerRunning(scans[k]) }) <= 1
    /\ Cardinality({ k \in DOMAIN scans : UpdatingStocks(scans[k]) }) <= 1

====
